---------------------------- MODULE Spec2Model ----------------------------
(***************************************************************************)
(* A model of the `float` crate (src/src/lib.rs): the capability traits    *)
(* Min, Max, Signum, Powf, Radians, One, Zero, Sqrt, Trig, Cast and        *)
(* FromPrimitive, implemented for f32 and f64 by forwarding to the native  *)
(* operation of the width.                                                 *)
(*                                                                         *)
(* The crate is stateless, so the state of the model is one program that   *)
(* holds a value and calls capabilities on it: the value it started from,  *)
(* the receiver and second argument of the latest call, the value the      *)
(* call returned, and the names of the calls made so far.                  *)
(*                                                                         *)
(* The native operations are IEEE 754 binary32 / binary64 arithmetic with  *)
(* round-to-nearest-even.  They are computed exactly here: a finite float  *)
(* is sign * m * 2^e with m a natural number of arbitrary size, kept as a   *)
(* sequence of limbs (a 53-bit significand and its products do not fit a   *)
(* 32-bit integer).                                                        *)
(***************************************************************************)
EXTENDS Integers, Sequences, FiniteSets, TLC

(***************************************************************************)
(* Natural numbers of arbitrary size: little-endian sequences of limbs in  *)
(* base 2^LimbBits, without leading zero limbs; zero is << >>.             *)
(***************************************************************************)
LimbBits == 15

Base == 2 ^ LimbBits

Limb(a, i) == IF i <= Len(a) THEN a[i] ELSE 0

Zeros(n) == [i \in 1..n |-> 0]

MaxOf(S) == CHOOSE i \in S : \A j \in S : j <= i

\* a without its leading zero limbs
BNorm(a) ==
    LET nz == {i \in 1..Len(a) : a[i] # 0}
    IN  IF nz = {} THEN << >> ELSE SubSeq(a, 1, MaxOf(nz))

(***************************************************************************)
(* The carry chains below split the range of limbs in halves, so that the  *)
(* depth of the recursion is logarithmic in the length of the numbers.     *)
(***************************************************************************)
RECURSIVE AddRange(_, _, _, _, _)
AddRange(a, b, lo, hi, c) ==
    IF lo > hi THEN [s |-> << >>, c |-> c]
    ELSE IF lo = hi
    THEN LET t == Limb(a, lo) + Limb(b, lo) + c
         IN  [s |-> <<t % Base>>, c |-> t \div Base]
    ELSE LET mid == (lo + hi) \div 2
             l   == AddRange(a, b, lo, mid, c)
             h   == AddRange(a, b, mid + 1, hi, l.c)
         IN  [s |-> l.s \o h.s, c |-> h.c]

\* the limbs x.s with the carry x.c out of the last of them
WithCarry(x) == IF x.c = 0 THEN x.s ELSE Append(x.s, x.c)

BAdd(a, b) ==
    WithCarry(AddRange(a, b, 1, IF Len(a) > Len(b) THEN Len(a) ELSE Len(b), 0))

RECURSIVE SubRange(_, _, _, _, _)
SubRange(a, b, lo, hi, c) ==
    IF lo > hi THEN [s |-> << >>, c |-> c]
    ELSE IF lo = hi
    THEN LET t == a[lo] - Limb(b, lo) - c
         IN  IF t < 0 THEN [s |-> <<t + Base>>, c |-> 1] ELSE [s |-> <<t>>, c |-> 0]
    ELSE LET mid == (lo + hi) \div 2
             l   == SubRange(a, b, lo, mid, c)
             h   == SubRange(a, b, mid + 1, hi, l.c)
         IN  [s |-> l.s \o h.s, c |-> h.c]

\* a - b for a >= b
BSub(a, b) == BNorm(SubRange(a, b, 1, Len(a), 0).s)

\* -1, 0, 1 as a < b, a = b, a > b
BCmp(a, b) ==
    IF Len(a) > Len(b) THEN 1
    ELSE IF Len(a) < Len(b) THEN -1
    ELSE LET D == {i \in 1..Len(a) : a[i] # b[i]}
         IN  IF D = {} THEN 0
             ELSE IF a[MaxOf(D)] > b[MaxOf(D)] THEN 1 ELSE -1

RECURSIVE MulLimbRange(_, _, _, _, _)
MulLimbRange(a, d, lo, hi, c) ==
    IF lo > hi THEN [s |-> << >>, c |-> c]
    ELSE IF lo = hi
    THEN LET t == a[lo] * d + c
         IN  [s |-> <<t % Base>>, c |-> t \div Base]
    ELSE LET mid == (lo + hi) \div 2
             l   == MulLimbRange(a, d, lo, mid, c)
             h   == MulLimbRange(a, d, mid + 1, hi, l.c)
         IN  [s |-> l.s \o h.s, c |-> h.c]

\* a * d for one limb d
BMulLimb(a, d) ==
    IF d = 0 THEN << >> ELSE WithCarry(MulLimbRange(a, d, 1, Len(a), 0))

RECURSIVE MulRange(_, _, _, _)
MulRange(a, b, lo, hi) ==
    IF lo = hi
    THEN (IF b[lo] = 0 THEN << >> ELSE Zeros(lo - 1) \o BMulLimb(a, b[lo]))
    ELSE LET mid == (lo + hi) \div 2
         IN  BAdd(MulRange(a, b, lo, mid), MulRange(a, b, mid + 1, hi))

BMul(a, b) == IF a = << >> \/ b = << >> THEN << >> ELSE BNorm(MulRange(a, b, 1, Len(b)))

\* a * 2^n
BShl(a, n) ==
    IF a = << >> THEN a
    ELSE Zeros(n \div LimbBits) \o BMulLimb(a, 2 ^ (n % LimbBits))

\* a \div 2^n
\* t \div 2^r for r < LimbBits
ShrBits(t, r) ==
    BNorm([i \in 1..Len(t) |->
             (t[i] \div (2 ^ r)) + (Limb(t, i + 1) % (2 ^ r)) * 2 ^ (LimbBits - r)])

\* a without its k lowest limbs
ShrLimbs(a, k) == IF k >= Len(a) THEN << >> ELSE SubSeq(a, k + 1, Len(a))

BShr(a, n) == ShrBits(ShrLimbs(a, n \div LimbBits), n % LimbBits)

RECURSIVE LimbLen(_)
LimbLen(d) == IF d = 0 THEN 0 ELSE 1 + LimbLen(d \div 2)

\* the number of bits of a: the least n with a < 2^n
BBitLen(a) == IF a = << >> THEN 0 ELSE LimbBits * (Len(a) - 1) + LimbLen(a[Len(a)])

BIsOdd(a) == a # << >> /\ a[1] % 2 = 1

\* a natural number below 2^30 as a bignum
BNat(n) == BNorm(<<n % Base, n \div Base>>)

BPow2(n) == BShl(<<1>>, n)

\* the greatest digit d, built from bit i downwards, with b * d <= r
RECURSIVE QDigit(_, _, _, _)
QDigit(r, b, i, d) ==
    IF i < 0 THEN d
    ELSE IF BCmp(BMulLimb(b, d + 2 ^ i), r) <= 0 THEN QDigit(r, b, i - 1, d + 2 ^ i)
    ELSE QDigit(r, b, i - 1, d)

Reverse(s) == [i \in 1..Len(s) |-> s[Len(s) + 1 - i]]

\* long division of the limbs hi down to lo of a, r the remainder so far; the
\* digits of the quotient come most significant first, so that the upper half
\* is computed before the lower half that continues from its remainder
RECURSIVE DivRange(_, _, _, _, _)
DivRange(a, b, hi, lo, r) ==
    IF hi < lo THEN [q |-> << >>, r |-> r]
    ELSE IF hi = lo
    THEN LET r2 == BNorm(<<a[lo]>> \o r)
             d  == QDigit(r2, b, LimbBits - 1, 0)
         IN  [q |-> <<d>>, r |-> BSub(r2, BMulLimb(b, d))]
    ELSE LET mid == (lo + hi) \div 2
             h   == DivRange(a, b, hi, mid + 1, r)
             l   == DivRange(a, b, mid, lo, h.r)
         IN  [q |-> h.q \o l.q, r |-> l.r]

\* quotient and remainder of a by b > 0
Quotient(x) == [q |-> BNorm(Reverse(x.q)), r |-> x.r]

BDivMod(a, b) == Quotient(DivRange(a, b, Len(a), 1, << >>))

\* the square root so far is r; decide its bits hi down to lo
RECURSIVE SqrtRange(_, _, _, _)
SqrtRange(n, hi, lo, r) ==
    IF hi < lo THEN r
    ELSE IF hi = lo
    THEN LET c == BAdd(r, BPow2(lo))
         IN  IF BCmp(BMul(c, c), n) <= 0 THEN c ELSE r
    ELSE LET mid == (lo + hi) \div 2
             up  == SqrtRange(n, hi, mid + 1, r)
         IN  IF up = << >> THEN SqrtRange(n, mid, lo, << >>)
             ELSE SqrtRange(n, mid, lo, up)

\* the integer square root of n: the greatest r with r * r <= n
BSqrt(n) == SqrtRange(n, (BBitLen(n) + 1) \div 2, 0, << >>)

\* b^n for a bignum b
RECURSIVE BPow(_, _)
BPow(b, n) ==
    IF n = 0 THEN <<1>>
    ELSE LET h == BPow(b, n \div 2)
             s == BMul(h, h)
         IN  IF n % 2 = 1 THEN BMul(s, b) ELSE s

RECURSIVE DecRange(_, _, _, _)
DecRange(g, lo, hi, acc) ==
    IF lo > hi THEN acc
    ELSE IF lo = hi THEN BAdd(BMulLimb(acc, 10000), BNat(g[lo]))
    ELSE LET mid == (lo + hi) \div 2
         IN  DecRange(g, mid + 1, hi, DecRange(g, lo, mid, acc))

\* the natural number written in decimal as the groups g of four digits each
BDec(g) == DecRange(g, 1, Len(g), << >>)

(***************************************************************************)
(* The two widths.  A float is a record: w its width; k its class ("nan",  *)
(* "inf", "zero" or "fin"); s its sign bit; and, for a finite non-zero     *)
(* value, m and e with |value| = m * 2^e, where m has exactly Prec(w) bits *)
(* (a normal number) or e = EMin(w) and m has fewer (a subnormal number).  *)
(* One NaN stands for all NaNs: payloads and the sign of a NaN are not     *)
(* modelled.                                                               *)
(***************************************************************************)
Widths == {32, 64}

\* the number of bits of the significand, the hidden bit included
Prec(w) == IF w = 32 THEN 24 ELSE 53

\* the exponent of the least significant bit of the subnormal numbers
EMin(w) == IF w = 32 THEN -149 ELSE -1074

\* the exponent of the least significant bit of the largest finite numbers
EMax(w) == IF w = 32 THEN 104 ELSE 971

NaN(w) == [w |-> w, k |-> "nan", s |-> 0, m |-> << >>, e |-> 0]

Inf(w, s) == [w |-> w, k |-> "inf", s |-> s, m |-> << >>, e |-> 0]

Zero(w, s) == [w |-> w, k |-> "zero", s |-> s, m |-> << >>, e |-> 0]

Fin(w, s, m, e) == [w |-> w, k |-> "fin", s |-> s, m |-> m, e |-> e]

IsNaN(x) == x.k = "nan"

IsFinite(x) == x.k \in {"zero", "fin"}

\* x is a value of width w as the hardware represents it
IsFloat(w, x) ==
    /\ DOMAIN x = {"w", "k", "s", "m", "e"}
    /\ x.w = w
    /\ x.k \in {"nan", "inf", "zero", "fin"}
    /\ x.s \in {0, 1}
    /\ x.k = "nan" => x.s = 0
    /\ x.k # "fin" => x.m = << >> /\ x.e = 0
    /\ x.k = "fin" =>
          /\ x.m # << >>
          /\ x.e >= EMin(w)
          /\ x.e <= EMax(w)
          /\ BBitLen(x.m) <= Prec(w)
          /\ BBitLen(x.m) < Prec(w) => x.e = EMin(w)

(***************************************************************************)
(* Rounding to nearest, ties to even: the float of width w nearest to      *)
(* (-1)^s * (M + t) * 2^E, where t is 0 when sticky is FALSE and an        *)
(* unknown amount with 0 < t < 1 when it is TRUE.  With sticky, M has at   *)
(* least Prec(w) + 1 bits.  The steps are operators of their own, each     *)
(* taking what the step before computed.                                   *)
(***************************************************************************)
\* the float (-1)^s * m * 2^e, m of at most Prec(w) bits: overflow is infinite
Pack(w, s, m, e) ==
    IF m = << >> THEN Zero(w, s)
    ELSE IF e > EMax(w) THEN Inf(w, s)
    ELSE Fin(w, s, m, e)

\* a significand q that rounding up carried to Prec(w) + 1 bits is halved
Renormalize(w, s, q, e) ==
    IF BBitLen(q) > Prec(w) THEN Pack(w, s, BShr(q, 1), e + 1) ELSE Pack(w, s, q, e)

\* q the kept bits, c the dropped bits compared with half a unit of q
RoundUp(w, s, q, e, c, sticky) ==
    Renormalize(w, s,
                IF c > 0 \/ (c = 0 /\ (sticky \/ BIsOdd(q))) THEN BAdd(q, <<1>>) ELSE q,
                e)

\* drop the sh > 0 low bits of M, of which q are the bits kept
DropBits(w, s, M, q, sh, e, sticky) ==
    RoundUp(w, s, q, e, BCmp(BSub(M, BShl(q, sh)), BPow2(sh - 1)), sticky)

\* round M * 2^E to a multiple of 2^e
RoundAt(w, s, M, E, e, sticky) ==
    IF e <= E THEN Pack(w, s, BShl(M, E - e), e)
    ELSE DropBits(w, s, M, BShr(M, e - E), e - E, e, sticky)

\* the exponent of the last bit of a float with n bits above 2^E
Quantum(w, E, n) == IF E + n - Prec(w) > EMin(w) THEN E + n - Prec(w) ELSE EMin(w)

Round(w, s, M, E, sticky) ==
    IF M = << >> THEN Zero(w, s)
    ELSE RoundAt(w, s, M, E, Quantum(w, E, BBitLen(M)), sticky)

\* the float of width w nearest to (-1)^s * (N / D) * 2^E, for N, D > 0
RoundDivided(w, s, qr, E) == Round(w, s, qr.q, E, qr.r # << >>)

\* the quotient of N * 2^k by D has at least Prec(w) + 2 bits
RoundShifted(w, s, N, D, E, k) == RoundDivided(w, s, BDivMod(BShl(N, k), D), E - k)

AtLeastZero(n) == IF n > 0 THEN n ELSE 0

RoundQuot(w, s, N, D, E) ==
    RoundShifted(w, s, N, D, E, AtLeastZero(Prec(w) + 2 + BBitLen(D) - BBitLen(N)))

\* a decimal literal of the source, as rustc converts it: the float nearest
\* to (-1)^s * digits * 10^exp10, the digits in groups of four
\* N * P for exp10 >= 0, N / P for exp10 < 0
Scaled(w, s, N, exp10, P) ==
    IF N = << >> THEN Zero(w, s)
    ELSE RoundQuot(w, s, IF exp10 >= 0 THEN BMul(N, P) ELSE N,
                   IF exp10 >= 0 THEN <<1>> ELSE P, 0)

Lit(w, s, digits, exp10) ==
    Scaled(w, s, BDec(digits), exp10,
           BPow(BNat(10), IF exp10 >= 0 THEN exp10 ELSE -exp10))

(***************************************************************************)
(* Exact dyadic numbers (-1)^s * m * 2^e, for the sums of the arithmetic   *)
(* and to measure the distance of two floats.                              *)
(***************************************************************************)
Dy(s, m, e) == [s |-> IF m = << >> THEN 0 ELSE s, m |-> m, e |-> IF m = << >> THEN 0 ELSE e]

\* the value of a finite float
DOf(x) == Dy(x.s, x.m, x.e)

DNeg(a) == Dy(1 - a.s, a.m, a.e)

DAbs(a) == Dy(0, a.m, a.e)

\* sa * am * 2^e + sb * bm * 2^e, c the comparison of am with bm
DAddCompared(sa, am, sb, bm, e, c) ==
    IF sa = sb THEN Dy(sa, BAdd(am, bm), e)
    ELSE IF c = 0 THEN Dy(0, << >>, 0)
    ELSE IF c > 0 THEN Dy(sa, BSub(am, bm), e)
    ELSE Dy(sb, BSub(bm, am), e)

DAddAligned(sa, am, sb, bm, e) == DAddCompared(sa, am, sb, bm, e, BCmp(am, bm))

DAddAt(a, b, e) == DAddAligned(a.s, BShl(a.m, a.e - e), b.s, BShl(b.m, b.e - e), e)

DAdd(a, b) ==
    IF a.m = << >> THEN b
    ELSE IF b.m = << >> THEN a
    ELSE DAddAt(a, b, IF a.e < b.e THEN a.e ELSE b.e)

DSub(a, b) == DAdd(a, DNeg(b))

DMul(a, b) == Dy((a.s + b.s) % 2, BMul(a.m, b.m), a.e + b.e)

DNonPositive(d) == d.m = << >> \/ d.s = 1

DNegative(d) == d.m # << >> /\ d.s = 1

\* a <= b
DLe(a, b) == DNonPositive(DSub(a, b))

\* a < b
DLt(a, b) == DNegative(DSub(a, b))

(***************************************************************************)
(* The native comparisons: a NaN compares unordered, the zeros equal.      *)
(***************************************************************************)
\* x < y
FLt(x, y) ==
    IF IsNaN(x) \/ IsNaN(y) THEN FALSE
    ELSE IF x.k = "inf" THEN x.s = 1 /\ ~(y.k = "inf" /\ y.s = 1)
    ELSE IF y.k = "inf" THEN y.s = 0
    ELSE DLt(DOf(x), DOf(y))

\* x == y
FEq(x, y) ==
    IF IsNaN(x) \/ IsNaN(y) THEN FALSE
    ELSE IF x.k = "inf" \/ y.k = "inf" THEN x.k = y.k /\ x.s = y.s
    ELSE DOf(x) = DOf(y)

\* x <= y
FLe(x, y) == FLt(x, y) \/ FEq(x, y)

(***************************************************************************)
(* The native arithmetic of width w: the exact result, rounded once.       *)
(***************************************************************************)
\* x * y
FMul(w, x, y) ==
    LET s == (x.s + y.s) % 2
    IN  IF IsNaN(x) \/ IsNaN(y) THEN NaN(w)
        ELSE IF x.k = "inf" \/ y.k = "inf"
        THEN (IF x.k = "zero" \/ y.k = "zero" THEN NaN(w) ELSE Inf(w, s))
        ELSE IF x.k = "zero" \/ y.k = "zero" THEN Zero(w, s)
        ELSE Round(w, s, BMul(x.m, y.m), x.e + y.e, FALSE)

\* x / y
FDiv(w, x, y) ==
    LET s == (x.s + y.s) % 2
    IN  IF IsNaN(x) \/ IsNaN(y) THEN NaN(w)
        ELSE IF x.k = "inf" THEN (IF y.k = "inf" THEN NaN(w) ELSE Inf(w, s))
        ELSE IF y.k = "inf" THEN Zero(w, s)
        ELSE IF y.k = "zero" THEN (IF x.k = "zero" THEN NaN(w) ELSE Inf(w, s))
        ELSE IF x.k = "zero" THEN Zero(w, s)
        ELSE RoundQuot(w, s, x.m, y.m, x.e - y.e)

\* the float nearest to the dyadic d
RoundDy(w, d) == Round(w, d.s, d.m, d.e, FALSE)

\* x + y
FAdd(w, x, y) ==
    IF IsNaN(x) \/ IsNaN(y) THEN NaN(w)
    ELSE IF x.k = "inf" THEN (IF y.k = "inf" /\ y.s # x.s THEN NaN(w) ELSE Inf(w, x.s))
    ELSE IF y.k = "inf" THEN Inf(w, y.s)
    ELSE IF x.k = "zero" /\ y.k = "zero" THEN Zero(w, IF x.s = 1 /\ y.s = 1 THEN 1 ELSE 0)
    ELSE RoundDy(w, DAdd(DOf(x), DOf(y)))

\* r the integer square root of M = m * 2^k, e - k even
SqrtRooted(w, M, r, E) == Round(w, 0, r, E, BMul(r, r) # M)

SqrtOf(w, M, E) == SqrtRooted(w, M, BSqrt(M), E)

SqrtShifted(w, x, k) == SqrtOf(w, BShl(x.m, k), (x.e - k) \div 2)

\* the least k >= k0 with e - k even
EvenShift(e, k0) == IF (e - k0) % 2 = 0 THEN k0 ELSE k0 + 1

\* the square root of x
FSqrt(w, x) ==
    IF IsNaN(x) THEN NaN(w)
    ELSE IF x.k = "zero" THEN x
    ELSE IF x.s = 1 THEN NaN(w)
    ELSE IF x.k = "inf" THEN x
    ELSE SqrtShifted(w, x, EvenShift(x.e, AtLeastZero(2 * Prec(w) + 2 - BBitLen(x.m))))

\* x as f32 / x as f64: x converted to width w
FConvert(w, x) ==
    IF IsNaN(x) THEN NaN(w)
    ELSE IF x.k = "inf" THEN Inf(w, x.s)
    ELSE IF x.k = "zero" THEN Zero(w, x.s)
    ELSE Round(w, x.s, x.m, x.e, FALSE)

FAbs(x) == IF IsNaN(x) THEN x ELSE [x EXCEPT !.s = 0]

\* the float of width w with the value of the integer i, |i| < 2^30
FromInt(w, i) == Round(w, IF i < 0 THEN 1 ELSE 0, BNat(IF i < 0 THEN -i ELSE i), 0, FALSE)

(***************************************************************************)
(* The constants of the standard library that the crate names.             *)
(***************************************************************************)
\* std::f32::consts::PI, std::f64::consts::PI
PiOf == [w \in Widths |-> Lit(w, 0, <<3141, 5926, 5358, 9793, 2384, 6264, 3383, 2795, 288>>, -35)]

PI(w) == PiOf[w]

\* std::f32::consts::FRAC_PI_2, std::f64::consts::FRAC_PI_2
FRAC_PI_2(w) == Lit(w, 0, <<1570, 7963, 2679, 4896, 6192, 3132, 1691, 6397, 5144>>, -35)

\* std::f32::consts::FRAC_PI_3, std::f64::consts::FRAC_PI_3
FRAC_PI_3(w) == Lit(w, 0, <<1047, 1975, 5119, 6597, 7461, 5421, 4461, 931, 6763>>, -35)

\* f32::EPSILON, f64::EPSILON: the distance from 1.0 to the next float
EPSILON(w) == Fin(w, 0, BPow2(Prec(w) - 1), 2 - 2 * Prec(w))

\* f32::MAX, f64::MAX
MAX(w) == Fin(w, 0, BSub(BPow2(Prec(w)), <<1>>), EMax(w))

\* f32::MIN_POSITIVE, f64::MIN_POSITIVE: the least normal number
MIN_POSITIVE(w) == Fin(w, 0, BPow2(Prec(w) - 1), EMin(w))

\* the least subnormal number
MinSubnormal(w) == Fin(w, 0, <<1>>, EMin(w))

(***************************************************************************)
(* The capabilities.                                                       *)
(***************************************************************************)
\* a faulty min, which returns the greater argument
min_greater(x, other) ==
    IF IsNaN(x) THEN {other}
    ELSE IF IsNaN(other) THEN {x}
    ELSE IF FLt(x, other) THEN {other}
    ELSE IF FLt(other, x) THEN {x}
    ELSE {x, other}

\* Min::min: the values the native min may return.  A NaN argument gives the
\* other argument; of two arguments that compare equal (+0.0 and -0.0)
\* either may be returned.
min(x, other) ==
    IF IsNaN(x) THEN {other}
    ELSE IF IsNaN(other) THEN {x}
    ELSE IF FLt(x, other) THEN {x}
    ELSE IF FLt(other, x) THEN {other}
    ELSE {x, other}

\* Max::max: the values the native max may return
max(x, other) ==
    IF IsNaN(x) THEN {other}
    ELSE IF IsNaN(other) THEN {x}
    ELSE IF FLt(other, x) THEN {x}
    ELSE IF FLt(x, other) THEN {other}
    ELSE {x, other}

\* a faulty signum, which is zero at the zeros
signum_zero(x) ==
    IF IsNaN(x) THEN NaN(x.w)
    ELSE IF x.k = "zero" THEN x
    ELSE FromInt(x.w, IF x.s = 1 THEN -1 ELSE 1)

\* Signum::signum: 1.0 with the sign of x, NaN for a NaN
signum(x) == IF IsNaN(x) THEN NaN(x.w) ELSE FromInt(x.w, IF x.s = 1 THEN -1 ELSE 1)

\* q[1] if y.m = q * 2^-y.e
IntegerOr(y, q) == IF BShl(q, -y.e) = y.m THEN q[1] ELSE -1

\* the natural number n < 64 with |y| = n, or -1 when |y| is no such number
SmallNat(y) ==
    IF y.k = "zero" THEN 0
    ELSE IF y.k # "fin" \/ y.e > 0 \/ BBitLen(y.m) + y.e > 6 \/ BBitLen(y.m) + y.e < 1 THEN -1
    ELSE IntegerOr(y, BShr(y.m, -y.e))

\* y is finite and no integer
NonInteger(y) ==
    /\ y.k = "fin"
    /\ y.e < 0
    /\ BShl(BShr(y.m, -y.e), -y.e) # y.m

\* the float r if it is the dyadic p
IfExact(r, p) == IF r.k = "fin" /\ DSub(DOf(r), p).m = << >> THEN {r} ELSE {}

ExactOrNone(w, p) == IfExact(RoundDy(w, p), p)

\* x^n for a natural number n > 0
PowNat(x, n) == ExactOrNone(x.w, Dy(IF n % 2 = 1 THEN x.s ELSE 0, BPow(x.m, n), x.e * n))

PowfOf(x, other, n, unit) ==
    IF other.k = "zero" THEN {unit}
    ELSE IF x = unit THEN {x}
    ELSE IF IsNaN(x) \/ IsNaN(other) THEN {NaN(x.w)}
    ELSE IF x.k = "fin" /\ x.s = 1 /\ NonInteger(other) THEN {NaN(x.w)}
    ELSE IF x.k = "inf" /\ x.s = 0 THEN {IF other.s = 0 THEN x ELSE Zero(x.w, 0)}
    ELSE IF x.k = "fin" /\ other.s = 0 /\ n > 0 THEN PowNat(x, n)
    ELSE {}

\* Powf::powf: the values of the native powf where IEEE 754 fixes them (the
\* special cases, and the powers that are floats themselves); the empty set
\* elsewhere, where the precision of the native function is unspecified
powf(x, other) == PowfOf(x, other, SmallNat(other), FromInt(x.w, 1))

\* a faulty _90, which returns FRAC_PI_4
Radians_45(w) == Lit(w, 0, <<7853, 9816, 3397, 4483, 961, 5660, 8458, 1987, 5721>>, -36)

\* Radians::_90, Radians::_180, Radians::_360
Radians_90(w) == FRAC_PI_2(w)

Radians_180(w) == PI(w)

Radians_360(w) == FMul(w, Radians_180(w), FromInt(w, 2))

\* the literals 180.0_f32 and 180.0_f64
Lit180(w) == Lit(w, 0, <<180>>, 0)

\* PI / 180.0 and 180.0 / PI, in the arithmetic of the width
DegToRadFactors == [w \in Widths |-> FDiv(w, PI(w), Lit180(w))]

RadToDegFactors == [w \in Widths |-> FDiv(w, Lit180(w), PI(w))]

DegToRadFactor(w) == DegToRadFactors[w]

RadToDegFactor(w) == RadToDegFactors[w]

\* a faulty deg_to_rad, which multiplies by the factor of rad_to_deg
deg_to_rad_inverted(x) == FMul(x.w, x, RadToDegFactor(x.w))

\* a faulty rad_to_deg, which multiplies by the factor of the narrow width
rad_to_deg_narrow(x) == FMul(x.w, x, FConvert(x.w, RadToDegFactor(32)))

\* Radians::deg_to_rad: self * (PI / 180.0)
deg_to_rad(x) == FMul(x.w, x, DegToRadFactor(x.w))

\* Radians::rad_to_deg: self * (180.0 / PI)
rad_to_deg(x) == FMul(x.w, x, RadToDegFactor(x.w))

\* a faulty one, which returns 2.0
one_two(w) == Lit(w, 0, <<2>>, 0)

\* One::one, Zero::zero
one(w) == Lit(w, 0, <<1>>, 0)

zero(w) == Lit(w, 0, <<0>>, 0)

\* a faulty sqrt, which fails on a negative number instead of returning NaN
sqrt_checked(x) ==
    IF x.s = 1 /\ x.k \in {"fin", "inf"}
    THEN [w |-> x.w, k |-> "panic", s |-> 0, m |-> << >>, e |-> 0]
    ELSE FSqrt(x.w, x)

\* a faulty sqrt, which halves
sqrt_half(x) == FMul(x.w, x, Lit(x.w, 0, <<5>>, -1))

\* Sqrt::sqrt
sqrt(x) == FSqrt(x.w, x)

TrigNames ==
    {"sin", "cos", "tan", "asin", "acos", "atan",
     "sinh", "cosh", "tanh", "asinh", "acosh", "atanh"}

\* the cases of trig: z, inf, unit, out and below tell where x lies
TrigOf(fn, x, w, z, inf, unit, out, below, u, same, nan) ==
    IF IsNaN(x) THEN nan
    ELSE CASE fn \in {"sin", "tan"} -> IF z THEN same ELSE IF inf THEN nan ELSE {}
           [] fn = "cos"   -> IF z THEN {u} ELSE IF inf THEN nan ELSE {}
           [] fn = "asin"  -> IF z THEN same ELSE IF out THEN nan ELSE {}
           [] fn = "acos"  -> IF x = u THEN {Zero(w, 0)} ELSE IF out THEN nan ELSE {}
           [] fn = "atan"  -> IF z THEN same ELSE {}
           [] fn \in {"sinh", "asinh"} -> IF z \/ inf THEN same ELSE {}
           [] fn = "cosh"  -> IF z THEN {u} ELSE IF inf THEN {Inf(w, 0)} ELSE {}
           [] fn = "tanh"  -> IF z THEN same
                              ELSE IF inf THEN {[u EXCEPT !.s = x.s]} ELSE {}
           [] fn = "acosh" -> IF x = u THEN {Zero(w, 0)}
                              ELSE IF below THEN nan
                              ELSE IF inf THEN same ELSE {}
           [] fn = "atanh" -> IF z THEN same
                              ELSE IF unit THEN {Inf(w, x.s)}
                              ELSE IF out THEN nan ELSE {}

\* u is 1.0: whether |x| = 1, |x| > 1, x < 1
TrigAt(fn, x, u) ==
    TrigOf(fn, x, x.w, x.k = "zero", x.k = "inf", FAbs(x) = u, FLt(u, FAbs(x)),
           FLt(x, u), u, {x}, {NaN(x.w)})

\* Trig::sin ... Trig::atanh: the values of the native function fn where
\* IEEE 754 fixes them (zeros, infinities, NaN, the ends and the outside of
\* the domain); the empty set elsewhere, where the precision of the native
\* function is unspecified
trig(fn, x) == TrigAt(fn, x, FromInt(x.w, 1))

\* Trig::atan2, self the ordinate y and other the abscissa: as for trig
atan2(y, other) ==
    IF IsNaN(y) \/ IsNaN(other) THEN {NaN(y.w)}
    ELSE IF y.k = "zero" /\ other.s = 0 THEN {y}
    ELSE IF IsFinite(y) /\ other.k = "inf" /\ other.s = 0 THEN {Zero(y.w, y.s)}
    ELSE {}

\* a faulty cast, which goes through the narrow width whatever the widths
cast_through_f32(x, to) == FConvert(to, FConvert(32, x))

\* a faulty cast, which goes through an integer between the widths
cast_through_int(x, to) ==
    IF x.w = to THEN x
    ELSE IF x.k = "fin" /\ x.e < 0 THEN Round(to, x.s, BShr(x.m, -x.e), 0, FALSE)
    ELSE FConvert(to, x)

\* Cast::cast, the four implementations: x of either width into width to
cast(x, to) == IF x.w = to THEN x ELSE FConvert(to, x)

(***************************************************************************)
(* FromPrimitive.  An integer argument is a record of class "int" with its *)
(* sign and its magnitude.                                                 *)
(***************************************************************************)
IntArg(s, digits) == [w |-> 0, k |-> "int", s |-> s, m |-> BDec(digits), e |-> 0]

\* from_f64 and from_f32: t as Self
from_float(w, t) == IF t.w = w THEN t ELSE FConvert(w, t)

\* from_isize, from_u32 and from_i32: t as Self
from_int(w, t) == Round(w, t.s, t.m, 0, FALSE)

(***************************************************************************)
(* The program: it starts with a value of one of the widths, or with the   *)
(* width alone (the associated functions take no float), and calls the     *)
(* capabilities.  A conversion may follow conversions, up to MaxCalls      *)
(* calls in a row; every other capability is called on the input.          *)
(***************************************************************************)
VARIABLES
    calls,  \* the names of the capabilities called so far, in order
    orig,   \* the value the program started from
    arg,    \* the receiver of the latest call
    other,  \* the second argument of the latest call
    value   \* the value the program holds: what the latest call returned

vars == <<calls, orig, arg, other, value>>

\* the integers -MaxInt .. MaxInt, and the squares of 0 .. MaxInt, are inputs
MaxInt == 9

\* the longest chain of conversions
MaxCalls == 2

\* no float: the program holds only the width w
NoValue(w) == [w |-> w, k |-> "none", s |-> 0, m |-> << >>, e |-> 0]

Specials(w) == {NaN(w), Inf(w, 0), Inf(w, 1), Zero(w, 0), Zero(w, 1)}

Extremes(w) ==
    {MAX(w), [MAX(w) EXCEPT !.s = 1], MIN_POSITIVE(w), MinSubnormal(w),
     [MinSubnormal(w) EXCEPT !.s = 1], EPSILON(w)}

\* -7.5, 0.1, 0.5, 0.8, 1.8, 23.0, 60.0, 1e10, 0.401425
DecimalLits ==
    {<<1, <<75>>, -1>>, <<0, <<1>>, -1>>, <<0, <<5>>, -1>>, <<0, <<8>>, -1>>,
     <<0, <<18>>, -1>>, <<0, <<23>>, 0>>, <<0, <<60>>, 0>>, <<0, <<1>>, 10>>,
     <<0, <<40, 1425>>, -6>>}

Decimals(w) == {Lit(w, d[1], d[2], d[3]) : d \in DecimalLits}

\* f64 only: 2^24 + 1, 1e39, 1e-46 and f32::MAX, none but the last a value of f32
WideLits == {<<0, <<1677, 7217>>, 0>>, <<0, <<1>>, 39>>, <<0, <<1>>, -46>>}

WideOnly == {Lit(64, d[1], d[2], d[3]) : d \in WideLits} \cup {FConvert(64, MAX(32))}

\* the integers -MaxInt .. MaxInt and the squares of 0 .. MaxInt
Whole(w) ==
    {FromInt(w, i) : i \in (-MaxInt..MaxInt) \cup {i * i : i \in 0..MaxInt}}

Inputs(w) ==
    Specials(w) \cup Extremes(w) \cup Decimals(w) \cup Whole(w)
        \cup (IF w = 64 THEN WideOnly ELSE {})

\* the second arguments of min, max, powf, atan2 and of the operators
Others(w) ==
    Specials(w) \cup {FromInt(w, i) : i \in {-1, 1, 2, 3, 5, 10}}
        \cup {Lit(w, 0, <<5>>, -1), MAX(w)}

\* i32: 0, 1, -1, 2^24 + 1, i32::MAX, i32::MIN
I32_Inputs ==
    {IntArg(0, <<0>>), IntArg(0, <<1>>), IntArg(1, <<1>>), IntArg(0, <<1677, 7217>>),
     IntArg(0, <<21, 4748, 3647>>), IntArg(1, <<21, 4748, 3648>>)}

\* u32: 0, 1, 2^24 + 1, u32::MAX
U32_Inputs ==
    {IntArg(0, <<0>>), IntArg(0, <<1>>), IntArg(0, <<1677, 7217>>),
     IntArg(0, <<42, 9496, 7295>>)}

\* isize (64 bits): 0, -1, 2^53 + 1, isize::MAX, isize::MIN
Isize_Inputs ==
    {IntArg(0, <<0>>), IntArg(1, <<1>>), IntArg(0, <<9007, 1992, 5474, 993>>),
     IntArg(0, <<922, 3372, 368, 5477, 5807>>), IntArg(1, <<922, 3372, 368, 5477, 5808>>)}

Init ==
    /\ calls = << >>
    /\ \E w \in Widths : \E x \in Inputs(w) \cup {NoValue(w)} :
          /\ orig = x
          /\ arg = x
          /\ value = x
          /\ other = NoValue(w)

HasValue == value.k # "none"

First == calls = << >>

Conversions == {"deg_to_rad", "rad_to_deg", "cast_f32", "cast_f64"}

InChain ==
    /\ Len(calls) < MaxCalls
    /\ \A i \in DOMAIN calls : calls[i] \in Conversions

\* the call name(a, o) returns r
Call(name, a, o, r) ==
    /\ calls' = Append(calls, name)
    /\ arg' = a
    /\ other' = o
    /\ value' = r
    /\ UNCHANGED orig

\* a method of one argument
Unary(name, r) == Call(name, value, NoValue(value.w), r)

Min ==
    /\ First /\ HasValue
    /\ \E o \in Others(value.w) : \E r \in min(value, o) : Call("min", value, o, r)

Max ==
    /\ First /\ HasValue
    /\ \E o \in Others(value.w) : \E r \in max(value, o) : Call("max", value, o, r)

Signum == First /\ HasValue /\ Unary("signum", signum(value))

Powf ==
    /\ First /\ HasValue
    /\ \E o \in Others(value.w) : \E r \in powf(value, o) : Call("powf", value, o, r)

Call_90 == First /\ ~HasValue /\ Unary("_90", Radians_90(value.w))

Call_180 == First /\ ~HasValue /\ Unary("_180", Radians_180(value.w))

Call_360 == First /\ ~HasValue /\ Unary("_360", Radians_360(value.w))

DegToRad == InChain /\ HasValue /\ Unary("deg_to_rad", deg_to_rad(value))

RadToDeg == InChain /\ HasValue /\ Unary("rad_to_deg", rad_to_deg(value))

One == First /\ ~HasValue /\ Unary("one", one(value.w))

ZeroCall == First /\ ~HasValue /\ Unary("zero", zero(value.w))

Sqrt == First /\ HasValue /\ Unary("sqrt", sqrt(value))

Trig ==
    /\ First /\ HasValue
    /\ \E fn \in TrigNames : \E r \in trig(fn, value) : Unary(fn, r)

Atan2 ==
    /\ First /\ HasValue
    /\ \E o \in Others(value.w) : \E r \in atan2(value, o) : Call("atan2", value, o, r)

CastF32 == InChain /\ HasValue /\ Unary("cast_f32", cast(value, 32))

CastF64 == InChain /\ HasValue /\ Unary("cast_f64", cast(value, 64))

FromF64 ==
    /\ First /\ ~HasValue
    /\ \E t \in Inputs(64) : Call("from_f64", value, t, from_float(value.w, t))

FromF32 ==
    /\ First /\ ~HasValue
    /\ \E t \in Inputs(32) : Call("from_f32", value, t, from_float(value.w, t))

FromIsize ==
    /\ First /\ ~HasValue
    /\ \E t \in Isize_Inputs : Call("from_isize", value, t, from_int(value.w, t))

FromU32 ==
    /\ First /\ ~HasValue
    /\ \E t \in U32_Inputs : Call("from_u32", value, t, from_int(value.w, t))

FromI32 ==
    /\ First /\ ~HasValue
    /\ \E t \in I32_Inputs : Call("from_i32", value, t, from_int(value.w, t))

\* the operators the Float bound requires: other * self and other + self
Mul ==
    /\ First /\ HasValue
    /\ \E o \in Others(value.w) : Call("mul", value, o, FMul(value.w, o, value))

Add ==
    /\ First /\ HasValue
    /\ \E o \in Others(value.w) : Call("add", value, o, FAdd(value.w, o, value))

Next ==
    \/ Min \/ Max \/ Signum \/ Powf
    \/ Call_90 \/ Call_180 \/ Call_360 \/ DegToRad \/ RadToDeg
    \/ One \/ ZeroCall \/ Sqrt \/ Trig \/ Atan2
    \/ CastF32 \/ CastF64
    \/ FromF64 \/ FromF32 \/ FromIsize \/ FromU32 \/ FromI32
    \/ Mul \/ Add

Spec == Init /\ [][Next]_vars


(***************************************************************************)
(* The properties.  Each is stated of the states the calls leave behind:   *)
(* arg and other are what the latest call received, value what it          *)
(* returned, orig what the chain of calls started from.                    *)
(***************************************************************************)
\* the latest call is name
Called(name) == calls # << >> /\ calls[Len(calls)] = name

\* |x - y| for finite floats, exactly
Dist(x, y) == DAbs(DSub(DOf(x), DOf(y)))

\* x and y are finite and |x - y| <= tol
Within(x, y, tol) == IsFinite(x) /\ IsFinite(y) /\ DLe(Dist(x, y), tol)

\* the literals 60.0, 23.0, 0.401425, 1e-6, 0.1
Lit60(w) == Lit(w, 0, <<60>>, 0)

Lit23(w) == Lit(w, 0, <<23>>, 0)

Lit0401425(w) == Lit(w, 0, <<40, 1425>>, -6)

Millionth == Lit(64, 0, <<1>>, -6)

Tenth(w) == Lit(w, 0, <<1>>, -1)

C2_WithinEpsilon ==
    (calls = <<"rad_to_deg", "deg_to_rad">> /\ IsFinite(orig) /\ IsFinite(value)) =>
        Within(value, orig, DOf(EPSILON(orig.w)))

\* 2 * EPSILON * |x|
TwoEpsilonOf(x) == DMul(Dy(0, <<2>>, 0), DMul(DOf(EPSILON(x.w)), DAbs(DOf(x))))

\* C2 amended: for a finite x whose rad_to_deg is finite, deg_to_rad(rad_to_deg(x))
\* is finite and within 2 * EPSILON * |x| of x: the bound is relative to x.
C2_RoundTripRelative ==
    (calls = <<"rad_to_deg", "deg_to_rad">> /\ IsFinite(orig) /\ IsFinite(arg)) =>
        Within(value, orig, TwoEpsilonOf(orig))

C2_Witness ==
    /\ calls = <<"rad_to_deg", "deg_to_rad">>
    /\ IsFinite(orig) /\ IsFinite(arg) /\ IsFinite(value)
    /\ DLt(DOf(EPSILON(orig.w)), Dist(value, orig))

\* C3: _180() is the width's PI; _90() is exactly half of _180(); _360() is exactly
\* twice _180() (exactly: as real numbers, no rounding between them).
C3_RadianConstants ==
    /\ calls = <<"_180">> => value = PI(value.w)
    /\ calls = <<"_90">> =>
          /\ value.k = "fin"
          /\ DSub(DMul(Dy(0, <<2>>, 0), DOf(value)), DOf(Radians_180(value.w))).m = << >>
    /\ calls = <<"_360">> =>
          /\ value.k = "fin"
          /\ DSub(DOf(value), DMul(Dy(0, <<2>>, 0), DOf(Radians_180(value.w)))).m = << >>

C3_Witness ==
    /\ calls = <<"_90">>
    /\ value.w = 64
    /\ value = FDiv(64, PI(64), FromInt(64, 2))

\* C4: for arguments that are not NaN, min and max give equal results with the
\* arguments swapped, min(a, b) <= max(a, b), min returns one of the arguments and
\* it is <= both, max returns one of them and it is >= both; min(3.0, 5.0) == 3.0
\* and max(3.0, 5.0) == 5.0.
C4_MinMax ==
    /\ (calls = <<"min">> /\ ~IsNaN(arg) /\ ~IsNaN(other)) =>
          /\ \A r \in min(other, arg) : FEq(value, r)
          /\ \A g \in max(arg, other) : FLe(value, g)
          /\ value \in {arg, other}
          /\ FLe(value, arg) /\ FLe(value, other)
          /\ (arg = FromInt(arg.w, 3) /\ other = FromInt(arg.w, 5)) => value = arg
    /\ (calls = <<"max">> /\ ~IsNaN(arg) /\ ~IsNaN(other)) =>
          /\ \A r \in max(other, arg) : FEq(value, r)
          /\ \A l \in min(arg, other) : FLe(l, value)
          /\ value \in {arg, other}
          /\ FLe(arg, value) /\ FLe(other, value)
          /\ (arg = FromInt(arg.w, 3) /\ other = FromInt(arg.w, 5)) => value = other

C4_Witness ==
    /\ calls = <<"min">>
    /\ arg = FromInt(32, 5)
    /\ other = FromInt(32, 3)
    /\ value = other

\* x > 0 or x < 0, an infinity included and a zero not
IsPositive(x) == x.k \in {"fin", "inf"} /\ x.s = 0

IsNegative(x) == x.k \in {"fin", "inf"} /\ x.s = 1

\* C5 as stated: signum(a) is +1 when a is positive, -1 when a is negative, 0 when
\* a is zero and NaN when a is NaN.
C5_SignumZero ==
    calls = <<"signum">> =>
        /\ IsPositive(arg) => value = FromInt(arg.w, 1)
        /\ IsNegative(arg) => value = FromInt(arg.w, -1)
        /\ arg.k = "zero" => value.k = "zero"
        /\ IsNaN(arg) => IsNaN(value)

\* C5 amended: signum(a) is +1 when a is positive or +0.0, -1 when a is negative
\* or -0.0 (signum(-7.5) == -1.0), and NaN when a is NaN: never zero.
C5_SignumOfSign ==
    calls = <<"signum">> =>
        /\ (IsPositive(arg) \/ arg = Zero(arg.w, 0)) => value = FromInt(arg.w, 1)
        /\ (IsNegative(arg) \/ arg = Zero(arg.w, 1)) => value = FromInt(arg.w, -1)
        /\ arg = Lit(arg.w, 1, <<75>>, -1) => value = FromInt(arg.w, -1)
        /\ IsNaN(arg) => IsNaN(value)
        /\ value.k # "zero"

C5_Witness ==
    /\ calls = <<"signum">>
    /\ arg = Zero(32, 1)
    /\ value = FromInt(32, -1)

\* C6: for every finite x, one() * x == x and zero() + x == x.
C6_Identities ==
    /\ (calls = <<"mul">> /\ other = one(arg.w) /\ IsFinite(arg)) => FEq(value, arg)
    /\ (calls = <<"add">> /\ other = zero(arg.w) /\ IsFinite(arg)) => FEq(value, arg)

C6_Witness ==
    /\ calls = <<"mul">>
    /\ other = one(64)
    /\ arg = Tenth(64)
    /\ value = arg

\* the width of what the latest call returns
ResultWidth ==
    IF Called("cast_f32") THEN 32 ELSE IF Called("cast_f64") THEN 64 ELSE arg.w

C8_SqrtExact ==
    calls = <<"sqrt">> =>
        /\ \A i \in 0..MaxInt : arg = FromInt(arg.w, i * i) => value = FromInt(arg.w, i)
        /\ arg = Lit(arg.w, 0, <<4>>, 0) =>
              /\ value = Lit(arg.w, 0, <<2>>, 0)
              /\ DLt(Dist(value, Lit(arg.w, 0, <<2>>, 0)), DOf(EPSILON(arg.w)))

C8_Witness ==
    /\ calls = <<"sqrt">>
    /\ arg = FromInt(32, 9)
    /\ value = FromInt(32, 3)

\* every call so far is name
AllCalls(name) == calls # << >> /\ \A i \in DOMAIN calls : calls[i] = name

\* C9: a cast of a width to itself returns its argument unchanged (a NaN stays
\* NaN), and any number of them in a row returns the value they started from.
C9_SelfCast ==
    /\ (Called("cast_f32") /\ arg.w = 32) => value = arg
    /\ (Called("cast_f64") /\ arg.w = 64) => value = arg
    /\ (AllCalls("cast_f32") /\ orig.w = 32) => value = orig
    /\ (AllCalls("cast_f64") /\ orig.w = 64) => value = orig

C9_Witness ==
    /\ Len(calls) = MaxCalls
    /\ AllCalls("cast_f64")
    /\ orig = Tenth(64)
    /\ value = orig

\* the distance of the floats of the narrow width next to the finite x # 0
NarrowSpacing(x) == Dy(0, <<1>>, Quantum(32, x.e, BBitLen(x.m)))

\* C10: for an f64 x with |x| <= f32::MAX, x cast to f32 and back to f64 is finite
\* and differs from x by at most the distance of the f32 values around x; it need
\* not be x.
C10_NarrowWiden ==
    (calls = <<"cast_f32", "cast_f64">> /\ orig.k = "fin" /\ orig.w = 64
       /\ DLe(DAbs(DOf(orig)), DOf(MAX(32)))) =>
        Within(value, orig, NarrowSpacing(orig))

C10_Witness ==
    /\ calls = <<"cast_f32", "cast_f64">>
    /\ orig = Tenth(64)
    /\ value.w = 64
    /\ value # orig

=============================================================================
